---- MODULE Spec2Model ----
(***************************************************************************)
(* Authentication and refresh-token lifecycle of the AR backend:           *)
(* AuthService (register, login, refreshAccessToken, logout,               *)
(* changePassword, generateTokens, handleFailedLogin), the authenticate    *)
(* middleware and the logout controller.                                   *)
(*                                                                         *)
(* Time is counted in minutes.  The users and refresh_tokens tables are    *)
(* sequences of rows in insertion order.  A nullable column is a set that  *)
(* is empty (NULL) or holds the one value.                                 *)
(***************************************************************************)
EXTENDS Integers, Sequences, FiniteSets, TLC

VARIABLES
  users,           \* table users
  refresh_tokens,  \* table refresh_tokens
  now,             \* the clock read by new Date() / NOW()
  ticks,           \* number of clock advances so far
  last,            \* the most recent call: its arguments and its response
  streak,          \* history: per user id, the wrong-password logins since the
                   \* last successful login, and the time of the fifth of them
  calls            \* the register requests in flight: per request slot, the
                   \* await it is suspended at and its local variables

vars == <<users, refresh_tokens, now, ticks, last, streak, calls>>

----------------------------------------------------------------------------
(* Bounds of the model *)

MaxTokens == 2
LoginMaxTicks == 3
SessionMaxTicks == 1

(* Program constants *)

LockThreshold == 5
LockMinutes == 30
RefreshTokenDays == 7
MinPasswordLength == 8
ExpiresIn == 900
BcryptCost == 12
ValidationMinLength == 8

RefreshTokenMinutes == RefreshTokenDays * 24 * 60

\* one secret for both kinds of token
JwtSecretShared == "change-this-refresh-secret"

JwtSecret == "change-this-secret"
RefreshSecret == "change-this-refresh-secret"

(* JavaScript undefined; node-postgres sends it as NULL *)
Undefined == "undefined"

----------------------------------------------------------------------------
(* Inputs *)

GoodEmail1 == <<"a", "@", "b", ".", "c">>
GoodEmail2 == <<"d", "@", "b", ".", "c">>
BadEmail == <<"a", "@", "b">>

\* addresses that pass isEmail, one in two spellings
LowerEmail == <<"a", "@", "b", ".", "c", "d">>
UpperEmail == <<"A", "@", "b", ".", "c", "d">>
OtherEmail == <<"d", "@", "b", ".", "c", "d">>

GoodPassword == "Password1"
ShortPassword == "short"

Devices == {"agent"}
Addresses == {"10.0.0.1"}

----------------------------------------------------------------------------
(* Library calls, by what they do *)

\* /^[^\s@]+@[^\s@]+\.[^\s@]+$/
NoSpaceNoAt(s, lo, hi) ==
  /\ lo <= hi
  /\ \A k \in lo..hi : s[k] \notin {" ", "@"}

EmailRegexTest(s) ==
  \E i \in 1..Len(s) : \E j \in 1..Len(s) :
    /\ i < j
    /\ s[i] = "@"
    /\ s[j] = "."
    /\ NoSpaceNoAt(s, 1, i - 1)
    /\ NoSpaceNoAt(s, i + 1, j - 1)
    /\ NoSpaceNoAt(s, j + 1, Len(s))

\* bcrypt.hash(password, 12) and bcrypt.compare(password, hash)
BcryptHash(password) == [algo |-> "bcrypt", cost |-> BcryptCost, of |-> password]

BcryptCompare(password, hash) == hash.of = password

\* jwt.sign(payload, secret): the claims object gets iat, the signature
\* is determined by the secret; no expiresIn option is passed, so the
\* claims carry no exp and verification has no time to compare
JwtSign(payload, secret, t) ==
  [jwt |-> TRUE, key |-> secret, body |-> payload @@ [iat |-> t]]

\* a string that is no JWT
Garbage == [jwt |-> FALSE, key |-> "", body |-> [raw |-> "garbage"]]

\* jwt.verify(token, secret): the claims object, or JsonWebTokenError
JwtVerify(token, secret) ==
  IF token.jwt /\ token.key = secret
  THEN [ok |-> TRUE, decoded |-> token.body]
  ELSE [ok |-> FALSE, decoded |-> [error |-> "JsonWebTokenError"]]

\* property access obj.f of a decoded object
Get(obj, f) == IF f \in DOMAIN obj THEN obj[f] ELSE Undefined

----------------------------------------------------------------------------
(* Column defaults of the two tables (the schema is not part of the sources) *)

UserDefaults ==
  [is_active |-> TRUE, failed_login_attempts |-> 0,
   locked_until |-> {}, last_login |-> {}]

RefreshTokenDefaults == [is_revoked |-> FALSE, last_used_at |-> {}]

\* the unique constraint on users.email: whether an INSERT of the email
\* passes it
UsersEmailUnique(us, email) == \A i \in DOMAIN us : us[i].email # email

(* Queries *)

\* RETURNING id of INSERT INTO users: a fresh id
NewUserId(us) == "u" \o ToString(Len(us) + 1)

\* uuidv4(): a fresh id
NewTokenId(rt) == "t" \o ToString(Len(rt) + 1)

\* SELECT ... FROM users WHERE email = $1
SelectUsersByEmail(us, email) == SelectSeq(us, LAMBDA r : r.email = email)

\* SELECT ... FROM users WHERE id = $1
SelectUsersById(us, id) == SelectSeq(us, LAMBDA r : r.id = id)

\* SELECT user_id, is_revoked, expires_at FROM refresh_tokens WHERE id = $1
\* (id = NULL selects nothing)
SelectTokensById(rt, id) == SelectSeq(rt, LAMBDA r : r.id = id)

\* UPDATE users SET ... WHERE id = $1
UpdateUser(us, id, set) ==
  [i \in DOMAIN us |-> IF us[i].id = id THEN set @@ us[i] ELSE us[i]]

\* INSERT INTO users (email, password_hash, full_name, is_verified)
InsertUser(us, email, passwordHash) ==
  Append(us, [id |-> NewUserId(us), email |-> email,
              password_hash |-> passwordHash] @@ UserDefaults)

\* UPDATE refresh_tokens SET is_revoked = true WHERE id = $1
RevokeTokenById(rt, id) ==
  [i \in DOMAIN rt |->
     IF rt[i].id = id THEN [rt[i] EXCEPT !.is_revoked = TRUE] ELSE rt[i]]

\* the same update with the user id compared to the record id
RevokeTokensOfUserById(rt, userId) ==
  [i \in DOMAIN rt |->
     IF rt[i].id = userId THEN [rt[i] EXCEPT !.is_revoked = TRUE]
     ELSE rt[i]]

\* UPDATE refresh_tokens SET is_revoked = true WHERE user_id = $1
RevokeTokensOfUser(rt, userId) ==
  [i \in DOMAIN rt |->
     IF rt[i].user_id = userId THEN [rt[i] EXCEPT !.is_revoked = TRUE]
     ELSE rt[i]]

\* UPDATE refresh_tokens SET last_used_at = NOW() WHERE id = $1
\* the update that renews the record as well: a sliding expiry
TouchTokenRenews(rt, id, t) ==
  [i \in DOMAIN rt |->
     IF rt[i].id = id
     THEN [rt[i] EXCEPT !.last_used_at = {t},
                        !.expires_at = t + RefreshTokenMinutes]
     ELSE rt[i]]

TouchToken(rt, id, t) ==
  [i \in DOMAIN rt |->
     IF rt[i].id = id THEN [rt[i] EXCEPT !.last_used_at = {t}] ELSE rt[i]]

----------------------------------------------------------------------------
(* AuthService *)

\* generateTokens storing the time of issuance as expires_at
GenerateTokensNoLifetime(rt, userId, email, deviceInfo, ipAddress, t) ==
  LET accessToken ==
        JwtSign([payload |-> [userId |-> userId, email |-> email]],
                JwtSecret, t)
      tokenId == NewTokenId(rt)
      refreshToken ==
        JwtSign([payload |-> [userId |-> userId, email |-> email,
                              tokenId |-> tokenId]],
                RefreshSecret, t)
      row == [id |-> tokenId, user_id |-> userId, token |-> refreshToken,
              device_info |-> deviceInfo, ip_address |-> ipAddress,
              expires_at |-> t] @@ RefreshTokenDefaults
  IN  [refresh_tokens |-> Append(rt, row),
       tokens |-> [accessToken |-> accessToken,
                   refreshToken |-> refreshToken,
                   expiresIn |-> ExpiresIn]]

\* generateTokens: the pair, and the table with the new record
GenerateTokens(rt, userId, email, deviceInfo, ipAddress, t) ==
  LET accessToken ==
        JwtSign([payload |-> [userId |-> userId, email |-> email]],
                JwtSecret, t)
      tokenId == NewTokenId(rt)
      refreshTokenExpiry == t + RefreshTokenMinutes
      refreshToken ==
        JwtSign([payload |-> [userId |-> userId, email |-> email,
                              tokenId |-> tokenId]],
                RefreshSecret, t)
      row == [id |-> tokenId, user_id |-> userId, token |-> refreshToken,
              device_info |-> deviceInfo, ip_address |-> ipAddress,
              expires_at |-> refreshTokenExpiry] @@ RefreshTokenDefaults
  IN  [refresh_tokens |-> Append(rt, row),
       tokens |-> [accessToken |-> accessToken,
                   refreshToken |-> refreshToken,
                   expiresIn |-> ExpiresIn]]

\* handleFailedLogin locking one attempt late (newAttempts > 5)
HandleFailedLoginLate(us, userId, currentAttempts, t) ==
  LET newAttempts == currentAttempts + 1 IN
  IF newAttempts > LockThreshold
  THEN UpdateUser(us, userId,
         [failed_login_attempts |-> newAttempts,
          locked_until |-> {t + LockMinutes}])
  ELSE UpdateUser(us, userId,
         [failed_login_attempts |-> newAttempts])

\* handleFailedLogin whose locking UPDATE leaves failed_login_attempts out
HandleFailedLoginLockOnly(us, userId, currentAttempts, t) ==
  LET newAttempts == currentAttempts + 1 IN
  IF newAttempts >= LockThreshold
  THEN UpdateUser(us, userId, [locked_until |-> {t + LockMinutes}])
  ELSE UpdateUser(us, userId,
         [failed_login_attempts |-> newAttempts])

\* handleFailedLogin that takes the locking branch on every failure
HandleFailedLoginAlwaysLocks(us, userId, currentAttempts, t) ==
  LET newAttempts == currentAttempts + 1 IN
  UpdateUser(us, userId,
    [failed_login_attempts |-> newAttempts,
     locked_until |-> {t + LockMinutes}])

\* handleFailedLogin that starts a new count once the row's lock has run out
HandleFailedLoginNewCycle(us, userId, currentAttempts, t) ==
  LET elapsed == \E i \in DOMAIN us :
                   /\ us[i].id = userId
                   /\ \E until \in us[i].locked_until : until <= t
      newAttempts == IF elapsed THEN 1 ELSE currentAttempts + 1
  IN
  IF newAttempts >= LockThreshold
  THEN UpdateUser(us, userId,
         [failed_login_attempts |-> newAttempts,
          locked_until |-> {t + LockMinutes}])
  ELSE UpdateUser(us, userId,
         [failed_login_attempts |-> newAttempts,
          locked_until |-> {}])

\* handleFailedLogin
HandleFailedLogin(us, userId, currentAttempts, t) ==
  LET newAttempts == currentAttempts + 1 IN
  IF newAttempts >= LockThreshold
  THEN UpdateUser(us, userId,
         [failed_login_attempts |-> newAttempts,
          locked_until |-> {t + LockMinutes}])
  ELSE UpdateUser(us, userId,
         [failed_login_attempts |-> newAttempts])

\* the lock test with the comparison turned round
IsLockedReversed(user, t) == \E until \in user.locked_until : until < t

\* the lock test that never lets a lock run out
IsLockedForever(user, t) == user.locked_until # {}

\* the lock test that also refuses a row with five failures stored
IsLockedByCount(user, t) ==
  \/ \E until \in user.locked_until : until > t
  \/ user.failed_login_attempts >= LockThreshold

\* user.locked_until && new Date(user.locked_until) > new Date()
IsLocked(user, t) == \E until \in user.locked_until : until > t

\* the reset that leaves locked_until as it is
ResetLoginStateKeepLock(us, userId, t) ==
  UpdateUser(us, userId,
    [failed_login_attempts |-> 0,
     last_login |-> {t}])

\* the reset that leaves failed_login_attempts as it is
ResetLoginStateKeepCounter(us, userId, t) ==
  UpdateUser(us, userId,
    [locked_until |-> {},
     last_login |-> {t}])

\* UPDATE users SET failed_login_attempts = 0, locked_until = NULL,
\*                  last_login = NOW()
ResetLoginState(us, userId, t) ==
  UpdateUser(us, userId,
    [failed_login_attempts |-> 0,
     locked_until |-> {},
     last_login |-> {t}])

\* what a call leaves behind: the tables, the error code ("OK": none), the
\* pair returned, the user row the call read (none: the empty set)
Outcome(us, rt, code, out, row) ==
  [users |-> us, refresh_tokens |-> rt, code |-> code, out |-> out, row |-> row]

\* register with the lookup of the email ahead of the password check
RegisterCallLookupFirst(us, rt, email, password, t) ==
  IF ~EmailRegexTest(email)
  THEN Outcome(us, rt, "INVALID_EMAIL", {}, {})
  ELSE IF Len(SelectUsersByEmail(us, email)) > 0
  THEN Outcome(us, rt, "USER_EXISTS", {}, {})
  ELSE IF Len(password) < MinPasswordLength
  THEN Outcome(us, rt, "WEAK_PASSWORD", {}, {})
  ELSE
    LET us2 == InsertUser(us, email, BcryptHash(password))
        user == us2[Len(us2)]
        g == GenerateTokens(rt, user.id, user.email, Undefined, Undefined, t)
    IN  Outcome(us2, g.refresh_tokens, "OK", {g.tokens}, {user})

\* register
RegisterCall(us, rt, email, password, t) ==
  IF ~EmailRegexTest(email)
  THEN Outcome(us, rt, "INVALID_EMAIL", {}, {})
  ELSE IF Len(password) < MinPasswordLength
  THEN Outcome(us, rt, "WEAK_PASSWORD", {}, {})
  ELSE IF Len(SelectUsersByEmail(us, email)) > 0
  THEN Outcome(us, rt, "USER_EXISTS", {}, {})
  ELSE
    LET us2 == InsertUser(us, email, BcryptHash(password))
        user == us2[Len(us2)]
        g == GenerateTokens(rt, user.id, user.email, Undefined, Undefined, t)
    IN  Outcome(us2, g.refresh_tokens, "OK", {g.tokens}, {user})

\* login with the is_active check ahead of the lock check
LoginCallDisabledFirst(us, rt, email, password, deviceInfo, ipAddress, t) ==
  LET rows == SelectUsersByEmail(us, email) IN
  IF Len(rows) = 0
  THEN Outcome(us, rt, "INVALID_CREDENTIALS", {}, {})
  ELSE
    LET user == rows[1] IN
    IF ~user.is_active
    THEN Outcome(us, rt, "ACCOUNT_DISABLED", {}, {user})
    ELSE IF IsLocked(user, t)
    THEN Outcome(us, rt, "ACCOUNT_LOCKED", {}, {user})
    ELSE IF ~BcryptCompare(password, user.password_hash)
    THEN Outcome(HandleFailedLogin(us, user.id, user.failed_login_attempts, t),
                 rt, "INVALID_CREDENTIALS", {}, {user})
    ELSE
      LET g == GenerateTokens(rt, user.id, user.email, deviceInfo, ipAddress, t)
      IN  Outcome(ResetLoginState(us, user.id, t), g.refresh_tokens,
                  "OK", {g.tokens}, {user})

\* login
LoginCall(us, rt, email, password, deviceInfo, ipAddress, t) ==
  LET rows == SelectUsersByEmail(us, email) IN
  IF Len(rows) = 0
  THEN Outcome(us, rt, "INVALID_CREDENTIALS", {}, {})
  ELSE
    LET user == rows[1] IN
    IF IsLocked(user, t)
    THEN Outcome(us, rt, "ACCOUNT_LOCKED", {}, {user})
    ELSE IF ~user.is_active
    THEN Outcome(us, rt, "ACCOUNT_DISABLED", {}, {user})
    ELSE IF ~BcryptCompare(password, user.password_hash)
    THEN Outcome(HandleFailedLogin(us, user.id, user.failed_login_attempts, t),
                 rt, "INVALID_CREDENTIALS", {}, {user})
    ELSE
      LET g == GenerateTokens(rt, user.id, user.email, deviceInfo, ipAddress, t)
      IN  Outcome(ResetLoginState(us, user.id, t), g.refresh_tokens,
                  "OK", {g.tokens}, {user})

\* the id refreshAccessToken and logout look the record up by: decoded.tokenId
DecodedTokenId(decoded) == Get(decoded, "tokenId")

\* the check of the record without is_revoked
RecordRejectedIfMissing(rows) == Len(rows) = 0

\* result.rows.length === 0 || result.rows[0].is_revoked
RecordRejected(rows) == Len(rows) = 0 \/ rows[1].is_revoked

\* refreshAccessToken
RefreshCall(us, rt, refreshToken, t) ==
  LET v == JwtVerify(refreshToken, RefreshSecret) IN
  IF ~v.ok
  THEN Outcome(us, rt, "INVALID_TOKEN", {}, {})
  ELSE
    LET tokenId == DecodedTokenId(v.decoded)
        rows == SelectTokensById(rt, tokenId)
    IN
    IF RecordRejected(rows)
    THEN Outcome(us, rt, "INVALID_TOKEN", {}, {})
    ELSE IF rows[1].expires_at < t
    THEN Outcome(us, rt, "TOKEN_EXPIRED", {}, {})
    ELSE
      LET g == GenerateTokens(TouchToken(rt, tokenId, t),
                              Get(v.decoded, "userId"),
                              Get(v.decoded, "email"),
                              Undefined, Undefined, t)
      IN  Outcome(us, g.refresh_tokens, "OK", {g.tokens}, {})

\* the try block of logout: what it throws ("none": nothing) and the table
LogoutTry(rt, refreshToken, storeUp) ==
  LET v == JwtVerify(refreshToken, RefreshSecret) IN
  IF ~v.ok
  THEN [thrown |-> "JsonWebTokenError", refresh_tokens |-> rt]
  ELSE IF ~storeUp
  THEN [thrown |-> "QueryError", refresh_tokens |-> rt]
  ELSE [thrown |-> "none",
        refresh_tokens |-> RevokeTokenById(rt, DecodedTokenId(v.decoded))]

\* a catch that swallows the verification's errors only, as the catch of
\* refreshAccessToken does
LogoutCatchJwtOnly(thrown) ==
  IF thrown \in {"none", "JsonWebTokenError"} THEN "OK"
  ELSE "INTERNAL_SERVER_ERROR"

\* catch (error) { } of logout: nothing is rethrown
LogoutCatch(thrown) == "OK"

\* logout
LogoutCall(us, rt, refreshToken, storeUp) ==
  LET r == LogoutTry(rt, refreshToken, storeUp) IN
  Outcome(us, r.refresh_tokens, LogoutCatch(r.thrown), {}, {})

\* changePassword with the length test ahead of the old password
ChangePasswordCallLengthFirst(us, rt, userId, oldPassword, newPassword) ==
  LET rows == SelectUsersById(us, userId) IN
  IF Len(rows) = 0
  THEN Outcome(us, rt, "USER_NOT_FOUND", {}, {})
  ELSE IF Len(newPassword) < MinPasswordLength
  THEN Outcome(us, rt, "WEAK_PASSWORD", {}, {rows[1]})
  ELSE IF ~BcryptCompare(oldPassword, rows[1].password_hash)
  THEN Outcome(us, rt, "INVALID_PASSWORD", {}, {rows[1]})
  ELSE
    LET us2 == UpdateUser(us, userId,
                 [password_hash |-> BcryptHash(newPassword)])
    IN  Outcome(us2, RevokeTokensOfUser(rt, userId), "OK", {}, {rows[1]})

\* changePassword that counts a wrong old password as a failed login
ChangePasswordCallCounts(us, rt, userId, oldPassword, newPassword) ==
  LET rows == SelectUsersById(us, userId) IN
  IF Len(rows) = 0
  THEN Outcome(us, rt, "USER_NOT_FOUND", {}, {})
  ELSE IF ~BcryptCompare(oldPassword, rows[1].password_hash)
  THEN Outcome(HandleFailedLogin(us, userId,
                                 rows[1].failed_login_attempts, 0),
               rt, "INVALID_PASSWORD", {}, {rows[1]})
  ELSE IF Len(newPassword) < MinPasswordLength
  THEN Outcome(us, rt, "WEAK_PASSWORD", {}, {rows[1]})
  ELSE
    LET us2 == UpdateUser(us, userId,
                 [password_hash |-> BcryptHash(newPassword)])
    IN  Outcome(us2, RevokeTokensOfUser(rt, userId), "OK", {}, {rows[1]})

\* changePassword
ChangePasswordCall(us, rt, userId, oldPassword, newPassword) ==
  LET rows == SelectUsersById(us, userId) IN
  IF Len(rows) = 0
  THEN Outcome(us, rt, "USER_NOT_FOUND", {}, {})
  ELSE IF ~BcryptCompare(oldPassword, rows[1].password_hash)
  THEN Outcome(us, rt, "INVALID_PASSWORD", {}, {rows[1]})
  ELSE IF Len(newPassword) < MinPasswordLength
  THEN Outcome(us, rt, "WEAK_PASSWORD", {}, {rows[1]})
  ELSE
    LET us2 == UpdateUser(us, userId,
                 [password_hash |-> BcryptHash(newPassword)])
    IN  Outcome(us2, RevokeTokensOfUser(rt, userId), "OK", {}, {rows[1]})

----------------------------------------------------------------------------
(* Controller and middleware *)

\* no refreshToken in the request body
Absent == [jwt |-> FALSE, key |-> "", body |-> [raw |-> ""]]

\* AuthController.logout: the service is called only for a given token;
\* an error of the service would go to next(error)
LogoutController(us, rt, refreshToken, storeUp) ==
  IF refreshToken = Absent
  THEN Outcome(us, rt, "OK", {}, {})
  ELSE LogoutCall(us, rt, refreshToken, storeUp)

\* the letters of the inputs, in upper and in lower case
UpperCase == <<"A", "B", "C", "D">>
LowerCase == <<"a", "b", "c", "d">>

ToLower(c) ==
  IF \E k \in DOMAIN UpperCase : UpperCase[k] = c
  THEN LowerCase[CHOOSE k \in DOMAIN UpperCase : UpperCase[k] = c]
  ELSE c

\* isEmail(): local part, "@", a domain whose last label (after the last
\* dot) has two characters or more
IsEmail(s) ==
  \E i \in 1..Len(s) : \E j \in 1..Len(s) :
    /\ i < j
    /\ s[i] = "@"
    /\ s[j] = "."
    /\ NoSpaceNoAt(s, 1, i - 1)
    /\ NoSpaceNoAt(s, i + 1, j - 1)
    /\ NoSpaceNoAt(s, j + 1, Len(s))
    /\ Len(s) - j >= 2
    /\ \A k \in (j + 1)..Len(s) : s[k] # "."

\* normalizeEmail() leaving the address as it was typed
NormalizeEmailKeepCase(s) == s

\* normalizeEmail(): the address in lower case
NormalizeEmail(s) == [k \in DOMAIN s |-> ToLower(s[k])]

\* registerValidation and the test of validationResult in the controller:
\* whether the body passes, and the body as the sanitizer leaves it
RegisterValidation(email, password) ==
  [ok |-> IsEmail(email) /\ Len(password) >= ValidationMinLength,
   email |-> IF IsEmail(email) THEN NormalizeEmail(email) ELSE email,
   password |-> password]


\* authenticate, as it reads the identity from decoded.payload
AuthenticatePayload(token) ==
  LET v == JwtVerify(token, JwtSecret) IN
  IF token = Absent
  THEN [code |-> "UNAUTHORIZED", identity |-> {}]
  ELSE IF ~v.ok
  THEN [code |-> "INVALID_TOKEN", identity |-> {}]
  ELSE IF "payload" \notin DOMAIN v.decoded
  THEN [code |-> "INTERNAL_SERVER_ERROR", identity |-> {}]
  ELSE [code |-> "OK",
        identity |-> {[id |-> Get(v.decoded.payload, "userId"),
                       email |-> Get(v.decoded.payload, "email")]}]

\* authenticate, as it reads the identity from the top of decoded
AuthenticateTop(token) ==
  LET v == JwtVerify(token, JwtSecret) IN
  IF token = Absent
  THEN [code |-> "UNAUTHORIZED", identity |-> {}]
  ELSE IF ~v.ok
  THEN [code |-> "INVALID_TOKEN", identity |-> {}]
  ELSE [code |-> "OK",
        identity |-> {[id |-> Get(v.decoded, "userId"),
                       email |-> Get(v.decoded, "email")]}]

\* the sources hold both definitions of the middleware
AuthenticateBuilds == {"payload", "top"}

\* authenticate that looks the user's sessions up and refuses the token
\* once a record of the user is revoked
AuthenticateChecksStore(build, token) ==
  IF /\ token.jwt
     /\ "payload" \in DOMAIN token.body
     /\ \E i \in DOMAIN refresh_tokens :
          /\ refresh_tokens[i].user_id = Get(token.body.payload, "userId")
          /\ refresh_tokens[i].is_revoked
  THEN [code |-> "INVALID_TOKEN", identity |-> {}]
  ELSE IF build = "payload" THEN AuthenticatePayload(token)
  ELSE AuthenticateTop(token)

Authenticate(build, token) ==
  IF build = "payload" THEN AuthenticatePayload(token) ELSE AuthenticateTop(token)

----------------------------------------------------------------------------
(* What a client can send *)

\* the access token issued in one pair with a refresh token
AccessTokenOf(refreshToken) ==
  JwtSign([payload |-> [userId |-> refreshToken.body.payload.userId,
                        email |-> refreshToken.body.payload.email]],
          JwtSecret, refreshToken.body.iat)

\* the claims of a refresh token at the top of the signed object, which is
\* where refreshAccessToken and logout read them
TopLevelOf(refreshToken) ==
  JwtSign([userId |-> refreshToken.body.payload.userId,
           email |-> refreshToken.body.payload.email,
           tokenId |-> refreshToken.body.payload.tokenId],
          RefreshSecret, refreshToken.body.iat)

IssuedRefreshTokens == {refresh_tokens[i].token : i \in DOMAIN refresh_tokens}

IssuedAccessTokens == {AccessTokenOf(tok) : tok \in IssuedRefreshTokens}

\* sent as refreshToken to refresh and logout
RefreshInputs ==
  IssuedRefreshTokens
    \cup {TopLevelOf(tok) : tok \in IssuedRefreshTokens}
    \cup {Garbage}

\* sent as Bearer token to a protected route
BearerInputs == IssuedAccessTokens \cup IssuedRefreshTokens \cup {Garbage, Absent}

UserIds == {users[i].id : i \in DOMAIN users}

----------------------------------------------------------------------------
(* The state machine *)

NoStreak == [n |-> 0, fifthAt |-> {}]

\* requests are handled concurrently: two slots
Procs == {"p", "q"}

Idle == [pc |-> "idle", email |-> <<>>, password |-> "", userId |-> Undefined]

Request(op, email, password, userId, token, storeUp) ==
  [op |-> op, email |-> email, password |-> password, userId |-> userId,
   token |-> token, storeUp |-> storeUp]

\* of the row a call read, the response keeps the failed_login_attempts
\* (login hands it to handleFailedLogin)
Response(code, out, row, identity) ==
  [code |-> code, out |-> out,
   attemptsBefore |-> {r.failed_login_attempts : r \in row},
   identity |-> identity]

Init ==
  /\ users = <<>>
  /\ refresh_tokens = <<>>
  /\ now = 0
  /\ ticks = 0
  /\ last = Request("none", <<>>, "", Undefined, Absent, TRUE)
              @@ Response("OK", {}, {}, {})
  /\ streak = <<>>
  /\ calls = [p \in Procs |-> Idle]

Register(email, password) ==
  LET r == RegisterCall(users, refresh_tokens, email, password, now) IN
  /\ r.code = "OK" => Len(refresh_tokens) < MaxTokens
  /\ users' = r.users
  /\ refresh_tokens' = r.refresh_tokens
  /\ last' = Request("register", email, password, Undefined, Absent, TRUE)
               @@ Response(r.code, r.out, r.row, {})
  /\ streak' = IF r.code = "OK" THEN Append(streak, NoStreak) ELSE streak
  /\ UNCHANGED <<calls, now, ticks>>

\* the history kept beside a login call
StreakAfterLogin(r) ==
  [i \in DOMAIN streak |->
     IF \E row \in r.row : row.id = users[i].id
     THEN IF r.code = "OK" THEN NoStreak
          ELSE IF r.code = "INVALID_CREDENTIALS"
          THEN [n |-> streak[i].n + 1,
                fifthAt |-> IF streak[i].n + 1 = LockThreshold
                            THEN {now} ELSE streak[i].fifthAt]
          ELSE streak[i]
     ELSE streak[i]]

Login(email, password, deviceInfo, ipAddress) ==
  LET r == LoginCall(users, refresh_tokens, email, password,
                     deviceInfo, ipAddress, now) IN
  /\ r.code = "OK" => Len(refresh_tokens) < MaxTokens
  /\ users' = r.users
  /\ refresh_tokens' = r.refresh_tokens
  /\ last' = Request("login", email, password, Undefined, Absent, TRUE)
               @@ Response(r.code, r.out, r.row, {})
  /\ streak' = StreakAfterLogin(r)
  /\ UNCHANGED <<calls, now, ticks>>

RefreshAccessToken(refreshToken) ==
  LET r == RefreshCall(users, refresh_tokens, refreshToken, now) IN
  /\ r.code = "OK" => Len(refresh_tokens) < MaxTokens
  /\ users' = r.users
  /\ refresh_tokens' = r.refresh_tokens
  /\ last' = Request("refresh", <<>>, "", Undefined, refreshToken, TRUE)
               @@ Response(r.code, r.out, r.row, {})
  /\ UNCHANGED <<calls, now, ticks, streak>>

Logout(refreshToken, storeUp) ==
  LET r == LogoutController(users, refresh_tokens, refreshToken, storeUp) IN
  /\ users' = r.users
  /\ refresh_tokens' = r.refresh_tokens
  /\ last' = Request("logout", <<>>, "", Undefined, refreshToken, storeUp)
               @@ Response(r.code, r.out, r.row, {})
  /\ UNCHANGED <<calls, now, ticks, streak>>

ChangePassword(userId, oldPassword, newPassword) ==
  LET r == ChangePasswordCall(users, refresh_tokens, userId,
                              oldPassword, newPassword) IN
  /\ users' = r.users
  /\ refresh_tokens' = r.refresh_tokens
  /\ last' = Request("changePassword", <<>>, oldPassword, userId, Absent, TRUE)
               @@ Response(r.code, r.out, r.row, {})
               @@ [newPassword |-> newPassword]
  /\ UNCHANGED <<calls, now, ticks, streak>>

Authenticated(build, token) ==
  LET r == Authenticate(build, token) IN
  /\ last' = Request("authenticate", <<>>, build, Undefined, token, TRUE)
               @@ Response(r.code, {}, {}, r.identity)
  /\ UNCHANGED <<calls, users, refresh_tokens, now, ticks, streak>>

\* is_active is read by login and written by no call of the service: an
\* account is disabled from outside
Disable(userId) ==
  /\ \E i \in DOMAIN users : users[i].id = userId /\ users[i].is_active
  /\ users' = UpdateUser(users, userId, [is_active |-> FALSE])
  /\ last' = Request("disable", <<>>, "", userId, Absent, TRUE)
               @@ Response("OK", {}, {}, {})
  /\ UNCHANGED <<calls, refresh_tokens, now, ticks, streak>>

Tick(d) ==
  /\ now' = now + d
  /\ ticks' = ticks + 1
  /\ last' = Request("tick", <<>>, "", Undefined, Absent, TRUE)
               @@ Response("OK", {}, {}, {})
  /\ UNCHANGED <<calls, users, refresh_tokens, streak>>

(* POST /register, await by await: requests in flight interleave at the
   awaits of the service *)

\* the controller's validation, then register up to the lookup of the email
RegisterBegin(p, email, password) ==
  LET v == RegisterValidation(email, password)
      code == IF ~v.ok THEN "VALIDATION_ERROR"
              ELSE IF ~EmailRegexTest(v.email) THEN "INVALID_EMAIL"
              ELSE IF Len(v.password) < MinPasswordLength THEN "WEAK_PASSWORD"
              ELSE IF Len(SelectUsersByEmail(users, v.email)) > 0
              THEN "USER_EXISTS"
              ELSE "OK"
  IN
  /\ calls[p].pc = "idle"
  /\ IF code = "OK"
     THEN /\ calls' = [calls EXCEPT ![p] =
                         [pc |-> "insert_user", email |-> v.email,
                          password |-> v.password, userId |-> Undefined]]
          /\ last' = Request("register", email, password, Undefined, Absent, TRUE)
                       @@ Response("PENDING", {}, {}, {})
     ELSE /\ calls' = calls
          /\ last' = Request("register", email, password, Undefined, Absent, TRUE)
                       @@ Response(code, {}, {}, {})
  /\ UNCHANGED <<users, refresh_tokens, now, ticks, streak>>

\* bcrypt.hash and INSERT INTO users; an INSERT the table's unique
\* constraint rejects makes the query throw, which the error handler
\* answers with INTERNAL_SERVER_ERROR
RegisterInsertUser(p) ==
  /\ calls[p].pc = "insert_user"
  /\ IF UsersEmailUnique(users, calls[p].email)
     THEN /\ users' = InsertUser(users, calls[p].email,
                                 BcryptHash(calls[p].password))
          /\ streak' = Append(streak, NoStreak)
          /\ calls' = [calls EXCEPT ![p].pc = "generate_tokens",
                                    ![p].userId = NewUserId(users)]
          /\ last' = Request("register", calls[p].email, calls[p].password,
                             Undefined, Absent, TRUE)
                       @@ Response("PENDING", {}, {}, {})
     ELSE /\ calls' = [calls EXCEPT ![p] = Idle]
          /\ last' = Request("register", calls[p].email, calls[p].password,
                             Undefined, Absent, TRUE)
                       @@ Response("INTERNAL_SERVER_ERROR", {}, {}, {})
          /\ UNCHANGED <<users, streak>>
  /\ UNCHANGED <<refresh_tokens, now, ticks>>

\* generateTokens and the response
RegisterGenerateTokens(p) ==
  LET g == GenerateTokens(refresh_tokens, calls[p].userId, calls[p].email,
                          Undefined, Undefined, now) IN
  /\ calls[p].pc = "generate_tokens"
  /\ Len(refresh_tokens) < MaxTokens
  /\ refresh_tokens' = g.refresh_tokens
  /\ calls' = [calls EXCEPT ![p] = Idle]
  /\ last' = Request("register", calls[p].email, calls[p].password,
                     Undefined, Absent, TRUE)
               @@ Response("OK", {g.tokens}, {}, {})
  /\ UNCHANGED <<users, now, ticks, streak>>

(* The login policy: one account, right and wrong passwords, the clock
   around the end of a lock *)

LoginEmails == {GoodEmail1, BadEmail}
LoginPasswords == {GoodPassword, ShortPassword}
LoginTickSteps == {1, LockMinutes - 1}

NextLogin ==
  \/ \E email \in LoginEmails : \E password \in LoginPasswords :
       Register(email, password)
  \/ \E email \in LoginEmails : \E password \in LoginPasswords :
       \E deviceInfo \in Devices : \E ipAddress \in Addresses :
         Login(email, password, deviceInfo, ipAddress)
  \/ \E userId \in UserIds : Disable(userId)
  \/ \E d \in LoginTickSteps : ticks < LoginMaxTicks /\ Tick(d)

SpecLogin == Init /\ [][NextLogin]_vars

(* The sessions: two accounts, the refresh tokens a client can send, the
   clock at and after the expiry of a refresh token *)

SessionEmails == {GoodEmail1, GoodEmail2}
SessionPasswords == {GoodPassword, ShortPassword}
SessionTickSteps == {RefreshTokenMinutes, RefreshTokenMinutes + 1}

NextSession ==
  \/ \E email \in SessionEmails : Register(email, GoodPassword)
  \/ \E email \in SessionEmails :
       \E deviceInfo \in Devices : \E ipAddress \in Addresses :
         Login(email, GoodPassword, deviceInfo, ipAddress)
  \/ \E tok \in RefreshInputs : RefreshAccessToken(tok)
  \/ \E tok \in RefreshInputs \cup {Absent} : \E storeUp \in BOOLEAN :
       Logout(tok, storeUp)
  \/ \E userId \in UserIds \cup {Undefined} : \E old \in SessionPasswords :
       \E new \in SessionPasswords : ChangePassword(userId, old, new)
  \/ \E d \in SessionTickSteps : ticks < SessionMaxTicks /\ Tick(d)

SpecSession == Init /\ [][NextSession]_vars

(* Access verification: the tokens of the pairs issued, sent to a protected
   route *)

NextAccess ==
  \/ \E email \in SessionEmails : Register(email, GoodPassword)
  \/ \E email \in SessionEmails :
       \E deviceInfo \in Devices : \E ipAddress \in Addresses :
         Login(email, GoodPassword, deviceInfo, ipAddress)
  \/ \E build \in AuthenticateBuilds : \E tok \in BearerInputs :
       Authenticated(build, tok)
  \/ \E tok \in IssuedAccessTokens : RefreshAccessToken(tok)
  \/ \E tok \in IssuedAccessTokens : Logout(tok, TRUE)
  \/ \E d \in SessionTickSteps : ticks < SessionMaxTicks /\ Tick(d)

SpecAccess == Init /\ [][NextAccess]_vars

(* Registration under concurrency: two requests in flight, an address in
   two spellings, a malformed address, a short password *)

RegisterEmails == {LowerEmail, UpperEmail, OtherEmail, GoodEmail1, BadEmail}
RegisterPasswords == {GoodPassword, ShortPassword}

NextRegister ==
  \/ \E p \in Procs : \E email \in RegisterEmails :
       \E password \in RegisterPasswords : RegisterBegin(p, email, password)
  \/ \E p \in Procs : RegisterInsertUser(p)
  \/ \E p \in Procs : RegisterGenerateTokens(p)

SpecRegister == Init /\ [][NextRegister]_vars

(* changePassword, store call by store call, in a process that may stop *)

NewPassword == "Password2"

\* the checks of changePassword, up to the first write
ChangePasswordChecks(us, userId, oldPassword, newPassword) ==
  LET rows == SelectUsersById(us, userId) IN
  IF Len(rows) = 0 THEN "USER_NOT_FOUND"
  ELSE IF ~BcryptCompare(oldPassword, rows[1].password_hash)
  THEN "INVALID_PASSWORD"
  ELSE IF Len(newPassword) < MinPasswordLength THEN "WEAK_PASSWORD"
  ELSE "OK"

\* the two writes in the other order: the revocation, then the hash
ChangePasswordStepRevokeFirst(pc, us, rt, userId, newPassword) ==
  IF pc = "update_hash"
  THEN [users |-> us,
        refresh_tokens |-> RevokeTokensOfUser(rt, userId),
        pc |-> "revoke_tokens"]
  ELSE [users |-> UpdateUser(us, userId,
                    [password_hash |-> BcryptHash(newPassword)]),
        refresh_tokens |-> rt,
        pc |-> "idle"]

\* the two writes of changePassword: UPDATE users SET password_hash, then
\* UPDATE refresh_tokens SET is_revoked
ChangePasswordStep(pc, us, rt, userId, newPassword) ==
  IF pc = "update_hash"
  THEN [users |-> UpdateUser(us, userId,
                    [password_hash |-> BcryptHash(newPassword)]),
        refresh_tokens |-> rt,
        pc |-> "revoke_tokens"]
  ELSE [users |-> us,
        refresh_tokens |-> RevokeTokensOfUser(rt, userId),
        pc |-> "idle"]

ChangePasswordBegin(p, userId, oldPassword, newPassword) ==
  LET code == ChangePasswordChecks(users, userId, oldPassword, newPassword) IN
  /\ calls[p].pc = "idle"
  /\ calls' = IF code = "OK"
              THEN [calls EXCEPT ![p] =
                      [pc |-> "update_hash", email |-> <<>>,
                       password |-> oldPassword, userId |-> userId,
                       newPassword |-> newPassword]]
              ELSE calls
  /\ last' = Request("changePassword", <<>>, oldPassword, userId, Absent, TRUE)
               @@ Response(IF code = "OK" THEN "PENDING" ELSE code, {}, {}, {})
               @@ [newPassword |-> newPassword]
  /\ UNCHANGED <<users, refresh_tokens, now, ticks, streak>>

ChangePasswordAdvance(p) ==
  /\ calls[p].pc \in {"update_hash", "revoke_tokens"}
  /\ LET s == ChangePasswordStep(calls[p].pc, users, refresh_tokens,
                                 calls[p].userId, calls[p].newPassword)
     IN  /\ users' = s.users
         /\ refresh_tokens' = s.refresh_tokens
         /\ calls' = [calls EXCEPT ![p] =
                        IF s.pc = "idle" THEN Idle
                        ELSE [calls[p] EXCEPT !.pc = s.pc]]
         /\ last' = Request("changePassword", <<>>, calls[p].password,
                            calls[p].userId, Absent, TRUE)
                      @@ Response(IF s.pc = "idle" THEN "OK" ELSE "PENDING",
                                  {}, {}, {})
                      @@ [newPassword |-> calls[p].newPassword]
  /\ UNCHANGED <<now, ticks, streak>>

\* the process stops: the calls in flight are gone, the tables stay
Crash ==
  /\ \E p \in Procs : calls[p].pc # "idle"
  /\ calls' = [p \in Procs |-> Idle]
  /\ last' = Request("crash", <<>>, "", Undefined, Absent, TRUE)
               @@ Response("OK", {}, {}, {})
  /\ UNCHANGED <<users, refresh_tokens, now, ticks, streak>>

ChangePasswords == {GoodPassword, NewPassword, ShortPassword}

NextChange ==
  \/ \E email \in SessionEmails : Register(email, GoodPassword)
  \/ \E userId \in UserIds \cup {Undefined} : \E old \in ChangePasswords :
       \E new \in ChangePasswords : ChangePasswordBegin("p", userId, old, new)
  \/ ChangePasswordAdvance("p")
  \/ Crash

SpecChange == Init /\ [][NextChange]_vars

(* login and refreshAccessToken with a store that may fail: failAt names
   the store call that throws ("none": the store answers every call) *)

StoreCalls == {"select", "update", "insert"}

\* login: SELECT users, then UPDATE users (handleFailedLogin or the reset),
\* then the INSERT of generateTokens; a query error leaves login as thrown
LoginCallStore(us, rt, email, password, deviceInfo, ipAddress, t, failAt) ==
  IF failAt = "select"
  THEN Outcome(us, rt, "INTERNAL_SERVER_ERROR", {}, {})
  ELSE
    LET rows == SelectUsersByEmail(us, email) IN
    IF Len(rows) = 0
    THEN Outcome(us, rt, "INVALID_CREDENTIALS", {}, {})
    ELSE
      LET user == rows[1] IN
      IF IsLocked(user, t)
      THEN Outcome(us, rt, "ACCOUNT_LOCKED", {}, {user})
      ELSE IF ~user.is_active
      THEN Outcome(us, rt, "ACCOUNT_DISABLED", {}, {user})
      ELSE IF failAt = "update"
      THEN Outcome(us, rt, "INTERNAL_SERVER_ERROR", {}, {user})
      ELSE IF ~BcryptCompare(password, user.password_hash)
      THEN Outcome(HandleFailedLogin(us, user.id,
                                     user.failed_login_attempts, t),
                   rt, "INVALID_CREDENTIALS", {}, {user})
      ELSE IF failAt = "insert"
      THEN Outcome(ResetLoginState(us, user.id, t), rt,
                   "INTERNAL_SERVER_ERROR", {}, {user})
      ELSE
        LET g == GenerateTokens(rt, user.id, user.email,
                                deviceInfo, ipAddress, t)
        IN  Outcome(ResetLoginState(us, user.id, t), g.refresh_tokens,
                    "OK", {g.tokens}, {user})

\* refreshAccessToken: SELECT refresh_tokens, then UPDATE last_used_at, then
\* the INSERT of generateTokens; the catch rethrows what is no
\* JsonWebTokenError
RefreshCallStore(us, rt, refreshToken, t, failAt) ==
  LET v == JwtVerify(refreshToken, RefreshSecret) IN
  IF ~v.ok
  THEN Outcome(us, rt, "INVALID_TOKEN", {}, {})
  ELSE IF failAt = "select"
  THEN Outcome(us, rt, "INTERNAL_SERVER_ERROR", {}, {})
  ELSE
    LET tokenId == DecodedTokenId(v.decoded)
        rows == SelectTokensById(rt, tokenId)
    IN
    IF RecordRejected(rows)
    THEN Outcome(us, rt, "INVALID_TOKEN", {}, {})
    ELSE IF rows[1].expires_at < t
    THEN Outcome(us, rt, "TOKEN_EXPIRED", {}, {})
    ELSE IF failAt = "update"
    THEN Outcome(us, rt, "INTERNAL_SERVER_ERROR", {}, {})
    ELSE IF failAt = "insert"
    THEN Outcome(us, TouchToken(rt, tokenId, t),
                 "INTERNAL_SERVER_ERROR", {}, {})
    ELSE
      LET g == GenerateTokens(TouchToken(rt, tokenId, t),
                              Get(v.decoded, "userId"),
                              Get(v.decoded, "email"),
                              Undefined, Undefined, t)
      IN  Outcome(us, g.refresh_tokens, "OK", {g.tokens}, {})

LoginStore(email, password, deviceInfo, ipAddress, failAt) ==
  LET r == LoginCallStore(users, refresh_tokens, email, password,
                          deviceInfo, ipAddress, now, failAt) IN
  /\ r.code = "OK" => Len(refresh_tokens) < MaxTokens
  /\ users' = r.users
  /\ refresh_tokens' = r.refresh_tokens
  /\ last' = Request("login", email, password, Undefined, Absent,
                     failAt = "none")
               @@ Response(r.code, r.out, r.row, {})
               @@ [failAt |-> failAt]
  /\ UNCHANGED <<calls, now, ticks, streak>>

RefreshStore(refreshToken, failAt) ==
  LET r == RefreshCallStore(users, refresh_tokens, refreshToken, now, failAt) IN
  /\ r.code = "OK" => Len(refresh_tokens) < MaxTokens
  /\ users' = r.users
  /\ refresh_tokens' = r.refresh_tokens
  /\ last' = Request("refresh", <<>>, "", Undefined, refreshToken,
                     failAt = "none")
               @@ Response(r.code, r.out, r.row, {})
               @@ [failAt |-> failAt]
  /\ UNCHANGED <<calls, now, ticks, streak>>

NextStore ==
  \/ \E email \in LoginEmails : \E password \in LoginPasswords :
       Register(email, password)
  \/ \E email \in LoginEmails : \E password \in LoginPasswords :
       \E deviceInfo \in Devices : \E ipAddress \in Addresses :
         \E failAt \in StoreCalls \cup {"none"} :
           LoginStore(email, password, deviceInfo, ipAddress, failAt)
  \/ \E tok \in RefreshInputs : \E failAt \in StoreCalls \cup {"none"} :
       RefreshStore(tok, failAt)

SpecStore == Init /\ [][NextStore]_vars

(* POST /login, await by await: each call reads the user row, verifies
   the password against the row it read, then writes *)

\* login up to bcrypt.compare: the SELECT and the tests on the row read
LoginBegin(p, email, password) ==
  LET rows == SelectUsersByEmail(users, email)
      code == IF Len(rows) = 0 THEN "INVALID_CREDENTIALS"
              ELSE IF IsLocked(rows[1], now) THEN "ACCOUNT_LOCKED"
              ELSE IF ~rows[1].is_active THEN "ACCOUNT_DISABLED"
              ELSE "PENDING"
      row == IF Len(rows) = 0 THEN {} ELSE {rows[1]}
  IN
  /\ calls[p].pc = "idle"
  /\ calls' = IF code = "PENDING"
              THEN [calls EXCEPT ![p] =
                      [pc |-> IF BcryptCompare(password, rows[1].password_hash)
                              THEN "reset_update" ELSE "failed_update",
                       email |-> rows[1].email,
                       password |-> password,
                       userId |-> rows[1].id,
                       attempts |-> rows[1].failed_login_attempts]]
              ELSE calls
  /\ streak' = [i \in DOMAIN streak |->
                  IF /\ code = "PENDING"
                     /\ users[i].id = rows[1].id
                     /\ ~BcryptCompare(password, rows[1].password_hash)
                  THEN [streak[i] EXCEPT !.n = @ + 1]
                  ELSE streak[i]]
  /\ last' = Request("login", email, password, Undefined, Absent, TRUE)
               @@ Response(code, {}, row, {})
  /\ UNCHANGED <<users, refresh_tokens, now, ticks>>

\* the UPDATE of the call: handleFailedLogin with the counter the call
\* read, or the reset of a verified login
LoginUpdate(p) ==
  /\ calls[p].pc \in {"failed_update", "reset_update"}
  /\ IF calls[p].pc = "failed_update"
     THEN /\ users' = HandleFailedLogin(users, calls[p].userId,
                                        calls[p].attempts, now)
          /\ calls' = [calls EXCEPT ![p] = Idle]
          /\ streak' = streak
          /\ last' = Request("login", calls[p].email, calls[p].password,
                             calls[p].userId, Absent, TRUE)
                       @@ Response("INVALID_CREDENTIALS", {}, {}, {})
     ELSE /\ users' = ResetLoginState(users, calls[p].userId, now)
          /\ calls' = [calls EXCEPT ![p].pc = "generate_tokens"]
          /\ streak' = [i \in DOMAIN streak |->
                          IF users[i].id = calls[p].userId
                          THEN NoStreak ELSE streak[i]]
          /\ last' = Request("login", calls[p].email, calls[p].password,
                             calls[p].userId, Absent, TRUE)
                       @@ Response("PENDING", {}, {}, {})
  /\ UNCHANGED <<refresh_tokens, now, ticks>>

\* generateTokens of a verified login
LoginGenerateTokens(p, deviceInfo, ipAddress) ==
  /\ calls[p].pc = "generate_tokens"
  /\ Len(refresh_tokens) < MaxTokens
  /\ LET g == GenerateTokens(refresh_tokens, calls[p].userId, calls[p].email,
                             deviceInfo, ipAddress, now)
     IN  /\ refresh_tokens' = g.refresh_tokens
         /\ last' = Request("login", calls[p].email, calls[p].password,
                            calls[p].userId, Absent, TRUE)
                      @@ Response("OK", {g.tokens}, {}, {})
  /\ calls' = [calls EXCEPT ![p] = Idle]
  /\ UNCHANGED <<users, now, ticks, streak>>

NextRace ==
  \/ Register(GoodEmail1, GoodPassword)
  \/ \E p \in Procs : \E password \in LoginPasswords :
       LoginBegin(p, GoodEmail1, password)
  \/ \E p \in Procs : LoginUpdate(p)
  \/ \E p \in Procs : \E deviceInfo \in Devices : \E ipAddress \in Addresses :
       LoginGenerateTokens(p, deviceInfo, ipAddress)
  \/ ticks < SessionMaxTicks /\ Tick(LockMinutes)

SpecRace == Init /\ [][NextRace]_vars

(* protected routes after a logout or a changePassword *)

RevokeTickSteps == {(ExpiresIn \div 60) - 1}

NextRevoke ==
  \/ \E email \in SessionEmails : Register(email, GoodPassword)
  \/ \E tok \in RefreshInputs : Logout(tok, TRUE)
  \/ \E userId \in UserIds :
       ChangePassword(userId, GoodPassword, NewPassword)
  \/ \E build \in AuthenticateBuilds : \E tok \in IssuedAccessTokens :
       Authenticated(build, tok)
  \/ \E d \in RevokeTickSteps : ticks < SessionMaxTicks /\ Tick(d)

SpecRevoke == Init /\ [][NextRevoke]_vars

(* one account over time: time goes on while the account is locked, the
   owner keeps trying the right password, and wrong passwords stop coming
   once the lock has run out *)

LiveRegister == Register(GoodEmail1, GoodPassword)

LiveWrongLogin ==
  /\ Len(refresh_tokens) < MaxTokens
  /\ \A i \in DOMAIN users :
       \A until \in users[i].locked_until : until > now
  /\ \E deviceInfo \in Devices : \E ipAddress \in Addresses :
       Login(GoodEmail1, ShortPassword, deviceInfo, ipAddress)

LiveRightLogin ==
  \E deviceInfo \in Devices : \E ipAddress \in Addresses :
    Login(GoodEmail1, GoodPassword, deviceInfo, ipAddress)

LiveTick ==
  /\ \E i \in DOMAIN users :
       \E until \in users[i].locked_until : until > now
  /\ \E d \in LoginTickSteps : Tick(d)

NextLive ==
  \/ LiveRegister
  \/ LiveWrongLogin
  \/ LiveRightLogin
  \/ LiveTick

SpecLive ==
  /\ Init
  /\ [][NextLive]_vars
  /\ WF_vars(LiveTick)
  /\ WF_vars(LiveRightLogin)

(* changePassword of a user while a login or a refreshAccessToken for the
   same user is in flight *)

\* refreshAccessToken up to the expiry test: verification, SELECT and the
\* tests on the record read
RefreshBegin(p, refreshToken) ==
  LET v == JwtVerify(refreshToken, RefreshSecret)
      tokenId == DecodedTokenId(v.decoded)
      rows == SelectTokensById(refresh_tokens, tokenId)
      code == IF ~v.ok THEN "INVALID_TOKEN"
              ELSE IF RecordRejected(rows) THEN "INVALID_TOKEN"
              ELSE IF rows[1].expires_at < now THEN "TOKEN_EXPIRED"
              ELSE "PENDING"
  IN
  /\ calls[p].pc = "idle"
  /\ calls' = IF code = "PENDING"
              THEN [calls EXCEPT ![p] =
                      [pc |-> "touch_token",
                       email |-> Get(v.decoded, "email"),
                       password |-> "",
                       userId |-> Get(v.decoded, "userId"),
                       tokenId |-> tokenId]]
              ELSE calls
  /\ last' = Request("refresh", <<>>, "", Undefined, refreshToken, TRUE)
               @@ Response(code, {}, {}, {})
  /\ UNCHANGED <<users, refresh_tokens, now, ticks, streak>>

\* UPDATE refresh_tokens SET last_used_at = NOW()
RefreshTouchToken(p) ==
  /\ calls[p].pc = "touch_token"
  /\ refresh_tokens' = TouchToken(refresh_tokens, calls[p].tokenId, now)
  /\ calls' = [calls EXCEPT ![p].pc = "refresh_generate"]
  /\ last' = Request("refresh", <<>>, "", calls[p].userId, Absent, TRUE)
               @@ Response("PENDING", {}, {}, {})
  /\ UNCHANGED <<users, now, ticks, streak>>

\* generateTokens of refreshAccessToken
RefreshGenerateTokens(p) ==
  /\ calls[p].pc = "refresh_generate"
  /\ Len(refresh_tokens) < MaxTokens
  /\ LET g == GenerateTokens(refresh_tokens, calls[p].userId, calls[p].email,
                             Undefined, Undefined, now)
     IN  /\ refresh_tokens' = g.refresh_tokens
         /\ last' = Request("refresh", <<>>, "", calls[p].userId, Absent, TRUE)
                      @@ Response("OK", {g.tokens}, {}, {})
  /\ calls' = [calls EXCEPT ![p] = Idle]
  /\ UNCHANGED <<users, now, ticks, streak>>

NextOverlap ==
  \/ Register(GoodEmail1, GoodPassword)
  \/ \E userId \in UserIds :
       ChangePasswordBegin("p", userId, GoodPassword, NewPassword)
  \/ ChangePasswordAdvance("p")
  \/ LoginBegin("q", GoodEmail1, GoodPassword)
  \/ LoginUpdate("q")
  \/ \E deviceInfo \in Devices : \E ipAddress \in Addresses :
       LoginGenerateTokens("q", deviceInfo, ipAddress)
  \/ \E tok \in RefreshInputs : RefreshBegin("q", tok)
  \/ RefreshTouchToken("q")
  \/ RefreshGenerateTokens("q")

SpecOverlap == Init /\ [][NextOverlap]_vars

(* changePassword on an account with failed logins and a lock *)

NextPolicy ==
  \/ Register(GoodEmail1, GoodPassword)
  \/ \E password \in ChangePasswords :
       \E deviceInfo \in Devices : \E ipAddress \in Addresses :
         Login(GoodEmail1, password, deviceInfo, ipAddress)
  \/ \E userId \in UserIds : \E old \in ChangePasswords :
       \E new \in ChangePasswords : ChangePassword(userId, old, new)
  \/ ticks < SessionMaxTicks /\ Tick(LockMinutes - 1)

SpecPolicy == Init /\ [][NextPolicy]_vars

(* refreshAccessToken for an owner who is locked or disabled *)

NextOwner ==
  \/ Register(GoodEmail1, GoodPassword)
  \/ \E password \in LoginPasswords :
       \E deviceInfo \in Devices : \E ipAddress \in Addresses :
         Login(GoodEmail1, password, deviceInfo, ipAddress)
  \/ \E userId \in UserIds : Disable(userId)
  \/ \E tok \in RefreshInputs : RefreshAccessToken(tok)
  \/ \E tok \in RefreshInputs : Logout(tok, TRUE)

SpecOwner == Init /\ [][NextOwner]_vars

----------------------------------------------------------------------------
(* Properties *)

\* the user rows with an email
RowsOf(email) == {i \in DOMAIN users : users[i].email = email}

\* the token id a refresh token carries, wherever its claims sit
EmbeddedTokenId(tok) ==
  IF "payload" \in DOMAIN tok.body
  THEN tok.body.payload.tokenId
  ELSE tok.body.tokenId

SignedForRefresh(tok) == JwtVerify(tok, RefreshSecret).ok

\* the records a correctly signed refresh token names
BackingRecords(rt, tok) ==
  {i \in DOMAIN rt : rt[i].id = EmbeddedTokenId(tok)}

(* C1: once an account has had five wrong-password logins in a row (none
   successful in between), every login for it made less than 30 minutes
   after the fifth is answered ACCOUNT_LOCKED, with the right and with a
   wrong password alike. *)
C1_LockedAfterFiveFailures ==
  [][\A i \in DOMAIN users :
       ( /\ last'.op = "login"
         /\ last'.email = users[i].email
         /\ streak[i].n >= LockThreshold
         /\ \E fifth \in streak[i].fifthAt : now < fifth + LockMinutes )
       => last'.code = "ACCOUNT_LOCKED"]_vars

\* a login with the right password, 29 minutes after the fifth failure,
\* answered ACCOUNT_LOCKED
C1_Witness ==
  /\ last.op = "login"
  /\ last.code = "ACCOUNT_LOCKED"
  /\ \E i \in RowsOf(last.email) :
       /\ BcryptCompare(last.password, users[i].password_hash)
       /\ streak[i].n = LockThreshold
       /\ \E fifth \in streak[i].fifthAt : now = fifth + LockMinutes - 1

(* C2: after a login that returned a token pair, the account's
   failed_login_attempts is 0, its locked_until is NULL and its last_login
   is the time of the call, whatever the counter was before. *)
C2_SuccessfulLoginResets ==
  (last.op = "login" /\ last.out # {}) =>
    /\ RowsOf(last.email) # {}
    /\ \A i \in RowsOf(last.email) :
         /\ users[i].failed_login_attempts = 0
         /\ users[i].locked_until = {}
         /\ users[i].last_login = {now}

\* a successful login that read a counter of 5 or more (the lock had elapsed)
C2_Witness ==
  /\ last.op = "login"
  /\ last.out # {}
  /\ \E n \in last.attemptsBefore : n >= LockThreshold

(* C3: refreshAccessToken with a correctly signed refresh token whose record
   is revoked answers INVALID_TOKEN, returns no pair and stores no record,
   expired or not. *)
C3_RevokedTokenIsRejected ==
  [][( /\ last'.op = "refresh"
       /\ SignedForRefresh(last'.token)
       /\ \E i \in BackingRecords(refresh_tokens, last'.token) :
            refresh_tokens[i].is_revoked )
     => ( /\ last'.code = "INVALID_TOKEN"
          /\ last'.out = {}
          /\ Len(refresh_tokens') = Len(refresh_tokens) )]_vars

\* a refresh with an issued token whose record changePassword revoked and
\* which has expired as well
C3_Witness ==
  /\ last.op = "refresh"
  /\ last.code = "INVALID_TOKEN"
  /\ last.token \in IssuedRefreshTokens
  /\ \E i \in BackingRecords(refresh_tokens, last.token) :
       /\ refresh_tokens[i].is_revoked
       /\ refresh_tokens[i].expires_at < now

(* C4: a successful changePassword of user u leaves every record of u
   revoked, so that refreshAccessToken rejects each refresh token issued to
   u before, and leaves the records of the other users as they were. *)
C4_ChangePasswordRevokesAll ==
  [][(last'.op = "changePassword" /\ last'.code = "OK") =>
       /\ Len(refresh_tokens') = Len(refresh_tokens)
       /\ \A i \in DOMAIN refresh_tokens :
            IF refresh_tokens[i].user_id = last'.userId
            THEN /\ refresh_tokens'[i].is_revoked
                 /\ \A tok \in {refresh_tokens[i].token,
                                TopLevelOf(refresh_tokens[i].token)} :
                      RefreshCall(users', refresh_tokens', tok, now').code
                        = "INVALID_TOKEN"
            ELSE refresh_tokens'[i] = refresh_tokens[i]]_vars

\* a successful changePassword with a record of the user, now revoked, and
\* a record of another user, not revoked
C4_Witness ==
  /\ last.op = "changePassword"
  /\ last.code = "OK"
  /\ \E i \in DOMAIN refresh_tokens : \E j \in DOMAIN refresh_tokens :
       /\ refresh_tokens[i].user_id = last.userId
       /\ refresh_tokens[i].is_revoked
       /\ refresh_tokens[j].user_id # last.userId
       /\ ~refresh_tokens[j].is_revoked

(* C5: for every refresh token generateTokens issued, the verification of
   refreshAccessToken and logout recovers the token id, the user id and the
   email it was issued for, so the record is looked up by the id it was
   stored under. *)
C5_RefreshRoundTrip ==
  \A i \in DOMAIN refresh_tokens :
    LET v == JwtVerify(refresh_tokens[i].token, RefreshSecret) IN
    /\ v.ok
    /\ DecodedTokenId(v.decoded) = refresh_tokens[i].id
    /\ Get(v.decoded, "userId") = refresh_tokens[i].user_id
    /\ Get(v.decoded, "email") = refresh_tokens[i].token.body.payload.email

(* C6: for every access token generateTokens issued, authenticate yields the
   identity the token was issued for: its user id and its email. *)
C6_AccessRoundTrip ==
  (last.op = "authenticate" /\ last.token \in IssuedAccessTokens) =>
    /\ last.code = "OK"
    /\ \E who \in last.identity :
         /\ who.id = last.token.body.payload.userId
         /\ who.email = last.token.body.payload.email

\* the last call was a login with the password of a registered account
C7_LoginWithOwnPassword ==
  /\ last.op = "login"
  /\ \E i \in RowsOf(last.email) :
       BcryptCompare(last.password, users[i].password_hash)

C7_LoginSucceeds == C7_LoginWithOwnPassword => last.out # {}

C7_AccessTokenUsable ==
  C7_LoginWithOwnPassword =>
    \A pair \in last.out : \A i \in RowsOf(last.email) :
      \E who \in AuthenticatePayload(pair.accessToken).identity :
        who.id = users[i].id /\ who.email = users[i].email

C7_RefreshTokenUsable ==
  C7_LoginWithOwnPassword =>
    \A pair \in last.out :
      RefreshCall(users, refresh_tokens, pair.refreshToken, now).code = "OK"

(* C7: a login of a registered account with the password it registered
   succeeds, and the pair is usable: access verification accepts the access
   token as that user and refreshAccessToken accepts the refresh token. *)
C7_RegisterThenLoginUsable ==
  C7_LoginSucceeds /\ C7_AccessTokenUsable /\ C7_RefreshTokenUsable

C8_LoginExpiresIn ==
  ( /\ last'.op = "login"
    /\ \E i \in RowsOf(last'.email) :
         BcryptCompare(last'.password, users[i].password_hash) )
  => (last'.out # {} /\ \A pair \in last'.out : pair.expiresIn = 900)

C8_RefreshAfterLogin ==
  ( /\ last.op = "login"
    /\ last'.op = "refresh"
    /\ \E pair \in last.out : last'.token = pair.refreshToken )
  => ( /\ last'.code = "OK"
       /\ last'.out # {}
       /\ last'.out # last.out )

C8_LogoutSucceeds ==
  (last'.op = "logout" /\ last'.token \in IssuedRefreshTokens) =>
    last'.code = "OK"

C8_RefreshAfterLogout ==
  ( /\ last.op = "logout"
    /\ last.token \in IssuedRefreshTokens
    /\ last'.op = "refresh"
    /\ last'.token = last.token )
  => last'.code = "INVALID_TOKEN"

(* C8: the session scenario, step by step: a login returns expiresIn 900; a
   refresh with the refresh token that login returned answers with a new
   pair; a logout with an issued refresh token succeeds; a refresh with the
   token just logged out answers INVALID_TOKEN. *)
C8_SessionScenario ==
  [][ /\ C8_LoginExpiresIn
      /\ C8_RefreshAfterLogin
      /\ C8_LogoutSucceeds
      /\ C8_RefreshAfterLogout ]_vars

(* C9: logout answers success for every input: an issued token, the same
   token again, a revoked or expired one, one that fails verification, with
   the store answering or failing. *)
C9_LogoutNeverFails ==
  last.op = "logout" => last.code = "OK"

\* a logout whose UPDATE failed, answered with success
C9_Witness ==
  /\ last.op = "logout"
  /\ last.code = "OK"
  /\ SignedForRefresh(last.token)
  /\ ~last.storeUp

(* C10: a logout with a correctly signed refresh token whose record exists
   sets is_revoked on the record with the id the token carries and changes
   nothing else; a logout with a token that fails verification changes
   nothing. *)
C10_LogoutRevokesItsRecord ==
  [][last'.op = "logout" =>
       /\ users' = users
       /\ IF last'.token # Absent /\ SignedForRefresh(last'.token)
          THEN (last'.storeUp /\ BackingRecords(refresh_tokens, last'.token) # {})
               => refresh_tokens' =
                    [i \in DOMAIN refresh_tokens |->
                       IF i \in BackingRecords(refresh_tokens, last'.token)
                       THEN [refresh_tokens[i] EXCEPT !.is_revoked = TRUE]
                       ELSE refresh_tokens[i]]
          ELSE refresh_tokens' = refresh_tokens]_vars

\* the token's record exists, is not revoked and expires after t
UsableRecord(rt, tok, t) ==
  /\ BackingRecords(rt, tok) # {}
  /\ \A i \in BackingRecords(rt, tok) :
       ~rt[i].is_revoked /\ rt[i].expires_at > t

(* C11: refreshAccessToken with a correctly signed refresh token whose record
   exists, is not revoked and is not expired succeeds: the record's
   last_used_at becomes the time of the call, and the pair returned is for
   the same user, with a token id no record had before, stored as one new
   record. *)
C11_RefreshSucceeds ==
  [][( /\ last'.op = "refresh"
       /\ SignedForRefresh(last'.token)
       /\ UsableRecord(refresh_tokens, last'.token, now) )
     => ( /\ last'.code = "OK"
          /\ last'.out # {}
          /\ Len(refresh_tokens') = Len(refresh_tokens) + 1
          /\ \A i \in BackingRecords(refresh_tokens, last'.token) :
               /\ refresh_tokens'[i].last_used_at = {now}
               /\ refresh_tokens'[Len(refresh_tokens')].user_id
                    = refresh_tokens[i].user_id
          /\ \A i \in DOMAIN refresh_tokens :
               refresh_tokens'[Len(refresh_tokens')].id # refresh_tokens[i].id
          /\ \A pair \in last'.out :
               /\ refresh_tokens'[Len(refresh_tokens')].token = pair.refreshToken
               /\ EmbeddedTokenId(pair.refreshToken)
                    = refresh_tokens'[Len(refresh_tokens')].id )]_vars

(* C13: login reports the first check that fails, in the order: no row for
   the email (INVALID_CREDENTIALS), a lock in force (ACCOUNT_LOCKED),
   is_active false (ACCOUNT_DISABLED), and only then the password.  A locked
   and disabled account answers ACCOUNT_LOCKED; a disabled account answers
   ACCOUNT_DISABLED and keeps its row as it was, for a wrong password too. *)
C13_LoginCheckOrder ==
  [][last'.op = "login" =>
       IF RowsOf(last'.email) = {}
       THEN last'.code = "INVALID_CREDENTIALS" /\ users' = users
       ELSE \A i \in RowsOf(last'.email) :
              IF IsLocked(users[i], now)
              THEN last'.code = "ACCOUNT_LOCKED" /\ users' = users
              ELSE IF ~users[i].is_active
              THEN last'.code = "ACCOUNT_DISABLED" /\ users' = users
              ELSE IF BcryptCompare(last'.password, users[i].password_hash)
              THEN last'.code = "OK"
              ELSE last'.code = "INVALID_CREDENTIALS"]_vars

\* a login with a wrong password on a disabled account that is locked as
\* well, answered ACCOUNT_LOCKED
C13_Witness ==
  /\ last.op = "login"
  /\ last.code = "ACCOUNT_LOCKED"
  /\ \E i \in RowsOf(last.email) :
       /\ ~users[i].is_active
       /\ IsLocked(users[i], now)
       /\ ~BcryptCompare(last.password, users[i].password_hash)

(* C14: an access token issued by the service is never accepted where a
   refresh token is verified (refreshAccessToken answers INVALID_TOKEN and
   writes nothing, logout revokes nothing), and a refresh token issued by the
   service is never accepted by authenticate. *)
C14_CapabilitySeparation ==
  [][ /\ (last'.op = "refresh" /\ last'.token \in IssuedAccessTokens)
           => ( /\ last'.code = "INVALID_TOKEN"
                /\ last'.out = {}
                /\ refresh_tokens' = refresh_tokens )
      /\ (last'.op = "logout" /\ last'.token \in IssuedAccessTokens)
           => refresh_tokens' = refresh_tokens
      /\ (last'.op = "authenticate" /\ last'.token \in IssuedRefreshTokens)
           => (last'.code = "INVALID_TOKEN" /\ last'.identity = {}) ]_vars

\* an issued refresh token sent as Bearer token, answered INVALID_TOKEN
C14_Witness ==
  /\ last.op = "authenticate"
  /\ last.token \in IssuedRefreshTokens
  /\ last.code = "INVALID_TOKEN"

(* C15: an access token issued at time T is accepted by authenticate only
   before T + 15 minutes (the expiresIn of 900 seconds returned with it) and
   is answered TOKEN_EXPIRED from then on. *)
C15_AccessTokenExpires ==
  (last.op = "authenticate" /\ last.token \in IssuedAccessTokens) =>
    IF now < last.token.body.iat + (ExpiresIn \div 60)
    THEN last.code = "OK"
    ELSE last.code = "TOKEN_EXPIRED"

(* C16: refreshAccessToken accepts a correctly signed refresh token if and
   only if its record exists, is not revoked and has expires_at > now; at
   now = expires_at the token is rejected. *)
C16_AcceptedIffUsable ==
  [][(last'.op = "refresh" /\ SignedForRefresh(last'.token)) =>
       (last'.code = "OK" <=> UsableRecord(refresh_tokens, last'.token, now))]_vars

(* C17: register answers INVALID_EMAIL for a malformed email, else
   WEAK_PASSWORD for a password of fewer than 8 characters, else USER_EXISTS
   for an email that has a row, and in each of the three cases leaves both
   tables as they were. *)
C17_RegisterRejections ==
  [][last'.op = "register" =>
       IF last'.email = BadEmail
       THEN /\ last'.code = "INVALID_EMAIL"
            /\ users' = users /\ refresh_tokens' = refresh_tokens
       ELSE IF Len(last'.password) < 8
       THEN /\ last'.code = "WEAK_PASSWORD"
            /\ users' = users /\ refresh_tokens' = refresh_tokens
       ELSE IF RowsOf(last'.email) # {}
       THEN /\ last'.code = "USER_EXISTS"
            /\ users' = users /\ refresh_tokens' = refresh_tokens
       ELSE last'.code = "OK"]_vars

\* a register with a registered email and a short password, answered
\* WEAK_PASSWORD
C17_Witness ==
  /\ last.op = "register"
  /\ last.code = "WEAK_PASSWORD"
  /\ RowsOf(last.email) # {}

(* C19: changePassword of an existing user answers INVALID_PASSWORD when the
   old password does not verify, whatever the new one is, and WEAK_PASSWORD
   when the old one verifies and the new one has fewer than 8 characters; in
   both cases the user rows and the refresh-token records are unchanged. *)
C19_ChangePasswordRejections ==
  [][last'.op = "changePassword" =>
       \A i \in DOMAIN users :
         users[i].id = last'.userId =>
           IF ~BcryptCompare(last'.password, users[i].password_hash)
           THEN /\ last'.code = "INVALID_PASSWORD"
                /\ users' = users /\ refresh_tokens' = refresh_tokens
           ELSE IF Len(last'.newPassword) < 8
           THEN /\ last'.code = "WEAK_PASSWORD"
                /\ users' = users /\ refresh_tokens' = refresh_tokens
           ELSE last'.code = "OK"]_vars

\* a changePassword with a wrong old password and a short new one, answered
\* INVALID_PASSWORD, for a user with a record that is not revoked
C19_Witness ==
  /\ last.op = "changePassword"
  /\ last.code = "INVALID_PASSWORD"
  /\ Len(last.newPassword) < 8
  /\ \E i \in DOMAIN refresh_tokens :
       refresh_tokens[i].user_id = last.userId /\ ~refresh_tokens[i].is_revoked

\* the owner a successful call issues its pair for: the row of the email for
\* register and login, the owner of the token's record for a refresh
IssuedFor(us, rt, call) ==
  IF call.op = "refresh"
  THEN {rt[i].user_id : i \in BackingRecords(rt, call.token)}
  ELSE {us[i].id : i \in {j \in DOMAIN us : us[j].email = call.email}}

(* C20: every successful register, login and refreshAccessToken stores
   exactly one new refresh-token record, with an id no record had, owned by
   the user the call was for, not revoked, expiring 7 days after the call,
   and returns expiresIn 900; the other records keep their id, owner, token,
   is_revoked and expires_at; a login stores the device info and the address
   it was given. *)
C20_OneNewRecordPerPair ==
  [][(last'.op \in {"register", "login", "refresh"} /\ last'.code = "OK") =>
       LET n == Len(refresh_tokens')
           new == refresh_tokens'[n]
       IN  /\ n = Len(refresh_tokens) + 1
           /\ \A i \in DOMAIN refresh_tokens :
                /\ new.id # refresh_tokens[i].id
                /\ refresh_tokens'[i].id = refresh_tokens[i].id
                /\ refresh_tokens'[i].user_id = refresh_tokens[i].user_id
                /\ refresh_tokens'[i].token = refresh_tokens[i].token
                /\ refresh_tokens'[i].is_revoked = refresh_tokens[i].is_revoked
                /\ refresh_tokens'[i].expires_at = refresh_tokens[i].expires_at
           /\ {new.user_id} = IssuedFor(users', refresh_tokens, last')
           /\ ~new.is_revoked
           /\ new.expires_at = now + 7 * 24 * 60
           /\ last'.out # {}
           /\ \A pair \in last'.out :
                pair.expiresIn = 900 /\ pair.refreshToken = new.token
           /\ last'.op = "login" =>
                new.device_info \in Devices /\ new.ip_address \in Addresses]_vars

\* a successful login whose record holds the device info and the address
C20_Witness ==
  /\ last.op = "login"
  /\ last.code = "OK"
  /\ Len(refresh_tokens) = 2
  /\ refresh_tokens[2].device_info = "agent"
  /\ refresh_tokens[2].ip_address = "10.0.0.1"
  /\ refresh_tokens[2].expires_at = now + 7 * 24 * 60

(* C12: refreshAccessToken with a usable token t does not use t up: the call
   succeeds, the record of t is still not revoked and has the expires_at it
   had, and a further refreshAccessToken with t succeeds as well. *)
C12_RotationKeepsToken ==
  [][( /\ last'.op = "refresh"
       /\ SignedForRefresh(last'.token)
       /\ UsableRecord(refresh_tokens, last'.token, now) )
     => ( /\ last'.code = "OK"
          /\ \A i \in BackingRecords(refresh_tokens, last'.token) :
               /\ ~refresh_tokens'[i].is_revoked
               /\ refresh_tokens'[i].expires_at = refresh_tokens[i].expires_at
          /\ RefreshCall(users', refresh_tokens', last'.token, now').code
               = "OK" )]_vars

\* an address without regard to the case of its letters
CaseFolded(email) == [k \in DOMAIN email |-> ToLower(email[k])]

(* C18: no two user rows hold the same address up to the case of its
   letters, in every state, the states between the awaits of two register
   requests in flight included. *)
C18_EmailUnique ==
  \A i \in DOMAIN users : \A j \in DOMAIN users :
    i # j => CaseFolded(users[i].email) # CaseFolded(users[j].email)

\* two requests for one address in two spellings both passed the lookup;
\* the second INSERT was rejected
C18_Witness ==
  /\ last.op = "register"
  /\ last.code = "INTERNAL_SERVER_ERROR"
  /\ Len(users) = 1
  /\ users[1].email = last.email
  /\ \E p \in Procs : calls[p].pc = "generate_tokens"

\* the row's lock has not run out at t
LockInForce(row, t) == \E until \in row.locked_until : until > t

(* C21: while a lock is in force (locked_until > now) a login for the
   account, with the right or a wrong password, answers ACCOUNT_LOCKED,
   returns no pair, stores no record and leaves the user row as it was:
   the counter is not raised and the lock is not extended. *)
C21_LockedLoginChangesNothing ==
  [][last'.op = "login" =>
       \A i \in RowsOf(last'.email) :
         LockInForce(users[i], now) =>
           /\ last'.code = "ACCOUNT_LOCKED"
           /\ last'.out = {}
           /\ users' = users
           /\ refresh_tokens' = refresh_tokens]_vars

\* a second wrong-password login during the lock: the counter is still 5
\* and the lock still ends 30 minutes after the fifth failure
C21_Witness ==
  /\ last.op = "login"
  /\ last.code = "ACCOUNT_LOCKED"
  /\ \E i \in RowsOf(last.email) :
       /\ ~BcryptCompare(last.password, users[i].password_hash)
       /\ users[i].failed_login_attempts = 5
       /\ \E fifth \in streak[i].fifthAt :
            users[i].locked_until = {fifth + 30} /\ now > fifth

\* login reaches bcrypt.compare for the row and the password does not match
FailedVerification(row, password, t) ==
  /\ ~LockInForce(row, t)
  /\ row.is_active
  /\ ~BcryptCompare(password, row.password_hash)

(* C22: a failed password verification on an unlocked account whose stored
   counter n has n + 1 >= 5 stores n + 1 and sets locked_until to the time
   of the attempt plus 30 minutes; the attempt itself answers
   INVALID_CREDENTIALS, not ACCOUNT_LOCKED, and returns no pair. *)
C22_FifthFailureLocksSilently ==
  [][last'.op = "login" =>
       \A i \in RowsOf(last'.email) :
         (/\ FailedVerification(users[i], last'.password, now)
          /\ users[i].failed_login_attempts + 1 >= 5)
         => /\ users'[i].failed_login_attempts
                 = users[i].failed_login_attempts + 1
            /\ users'[i].locked_until = {now + 30}
            /\ last'.code = "INVALID_CREDENTIALS"
            /\ last'.out = {}
            /\ refresh_tokens' = refresh_tokens]_vars

\* the fifth failure in a row has just been answered
C22_Witness ==
  /\ last.op = "login"
  /\ last.code = "INVALID_CREDENTIALS"
  /\ last.attemptsBefore = {4}
  /\ \E i \in RowsOf(last.email) :
       /\ users[i].failed_login_attempts = 5
       /\ users[i].locked_until = {now + 30}

(* C23: a failed password verification on an unlocked account whose stored
   counter n has n + 1 < 5 raises the counter by exactly one, leaves
   locked_until and last_login as they were, stores no record, returns no
   pair and answers INVALID_CREDENTIALS. *)
C23_EarlyFailureOnlyCounts ==
  [][last'.op = "login" =>
       \A i \in RowsOf(last'.email) :
         (/\ FailedVerification(users[i], last'.password, now)
          /\ users[i].failed_login_attempts + 1 < 5)
         => /\ users'[i].failed_login_attempts
                 = users[i].failed_login_attempts + 1
            /\ users'[i].locked_until = users[i].locked_until
            /\ users'[i].last_login = users[i].last_login
            /\ last'.code = "INVALID_CREDENTIALS"
            /\ last'.out = {}
            /\ refresh_tokens' = refresh_tokens]_vars

\* the fourth failure in a row has just been answered: no lock yet
C23_Witness ==
  /\ last.op = "login"
  /\ last.code = "INVALID_CREDENTIALS"
  /\ last.attemptsBefore = {3}
  /\ \E i \in RowsOf(last.email) :
       /\ users[i].failed_login_attempts = 4
       /\ users[i].locked_until = {}

\* the row carries a lock that has run out at t
LockElapsed(row, t) == \E until \in row.locked_until : until <= t

(* C24: an elapsed lock does not clear history. Once now >= locked_until a
   login for an active account is verified against the stored counter n:
   a wrong password stores n + 1 and, as n >= 4, locks the account until
   30 minutes after the attempt; a right password succeeds; and no step
   lowers the counter of such a row but a successful login. *)
C24_ElapsedLockKeepsHistory ==
  [][\A i \in DOMAIN users :
       LockElapsed(users[i], now) =>
         /\ (last'.op = "login" /\ users[i].email = last'.email
               /\ users[i].is_active) =>
              /\ last'.code # "ACCOUNT_LOCKED"
              /\ ~BcryptCompare(last'.password, users[i].password_hash) =>
                   /\ users'[i].failed_login_attempts
                        = users[i].failed_login_attempts + 1
                   /\ users[i].failed_login_attempts >= 4
                   /\ users'[i].locked_until = {now + 30}
                   /\ last'.code = "INVALID_CREDENTIALS"
              /\ BcryptCompare(last'.password, users[i].password_hash) =>
                   /\ last'.code = "OK"
                   /\ users'[i].failed_login_attempts = 0
         /\ (i \in DOMAIN users'
               /\ users'[i].failed_login_attempts
                    < users[i].failed_login_attempts) =>
              /\ last'.op = "login"
              /\ last'.code = "OK"
              /\ users[i].email = last'.email]_vars

\* one wrong password at the very minute the lock ran out: six failures
\* stored and a second lock of 30 minutes
C24_Witness ==
  /\ last.op = "login"
  /\ last.code = "INVALID_CREDENTIALS"
  /\ last.attemptsBefore = {5}
  /\ \E i \in RowsOf(last.email) :
       /\ users[i].failed_login_attempts = 6
       /\ users[i].locked_until = {now + 30}
       /\ \E fifth \in streak[i].fifthAt : now = fifth + 30

(* C25: failed_login_attempts is reset by a successful login and by nothing
   else: the running out of locked_until resets nothing. No step lowers
   the counter of a row but a successful login for it, which stores 0; and
   the first failed login after a lock has run out counts on from the
   stored number and leaves the account locked again. *)
C25_OnlySuccessResets ==
  [][\A i \in DOMAIN users :
       /\ i \in DOMAIN users'
       /\ users'[i].failed_login_attempts < users[i].failed_login_attempts
            => /\ last'.op = "login"
               /\ last'.code = "OK"
               /\ users[i].email = last'.email
               /\ users'[i].failed_login_attempts = 0
       /\ (/\ last'.op = "login"
           /\ users[i].email = last'.email
           /\ LockElapsed(users[i], now)
           /\ last'.code = "INVALID_CREDENTIALS")
            => /\ users'[i].failed_login_attempts > 1
               /\ LockInForce(users'[i], now)]_vars

\* a failed login after the lock ran out found five failures stored and
\* left six
C25_Witness ==
  /\ last.op = "login"
  /\ last.code = "INVALID_CREDENTIALS"
  /\ \E i \in RowsOf(last.email) :
       /\ \E n \in last.attemptsBefore :
            n >= 5 /\ users[i].failed_login_attempts = n + 1
       /\ LockInForce(users[i], now)
       /\ \E fifth \in streak[i].fifthAt : now >= fifth + 30

\* the claim as stated: the first failed login after a lock has run out
\* is failure one of a new cycle and does not lock the account
C25_NewCycleAfterElapsedLock ==
  [][last'.op = "login" =>
       \A i \in RowsOf(last'.email) :
         (/\ LockElapsed(users[i], now)
          /\ FailedVerification(users[i], last'.password, now))
         => /\ users'[i].failed_login_attempts = 1
            /\ ~LockInForce(users'[i], now)]_vars

(* C27: refreshAccessToken classifies its failures: a token that fails
   verification is answered INVALID_TOKEN; a correctly signed token whose
   record is missing or revoked is answered INVALID_TOKEN, expired or not;
   a correctly signed token whose record is present, not revoked and
   expired is answered TOKEN_EXPIRED. *)
C27_RefreshFailureClasses ==
  [][last'.op = "refresh" =>
       IF ~SignedForRefresh(last'.token)
       THEN last'.code = "INVALID_TOKEN"
       ELSE IF \/ BackingRecords(refresh_tokens, last'.token) = {}
               \/ \E i \in BackingRecords(refresh_tokens, last'.token) :
                    refresh_tokens[i].is_revoked
       THEN last'.code = "INVALID_TOKEN"
       ELSE (\E i \in BackingRecords(refresh_tokens, last'.token) :
               refresh_tokens[i].expires_at < now)
            => last'.code = "TOKEN_EXPIRED"]_vars

(* C30: a storage failure is never reported as success: a logout with a
   correctly signed token during which the store fails does not answer
   success, and after a logout with a correctly signed token that answered
   success the token's record is revoked. *)
C30_LogoutReportsStoreFailure ==
  (last.op = "logout" /\ last.token # Absent /\ SignedForRefresh(last.token)) =>
    /\ ~last.storeUp => last.code # "OK"
    /\ last.code = "OK" =>
         \A i \in BackingRecords(refresh_tokens, last.token) :
           refresh_tokens[i].is_revoked

\* the row of the user a call in flight is for
RowOfCall(us, call) == {i \in DOMAIN us : us[i].id = call.userId}

(* C28: changePassword writes the new password hash strictly before it
   revokes the user's refresh tokens. The write of the hash revokes
   nothing; the step that revokes finds the new hash already stored; and
   when the process stops between the two, the new password is the one
   login accepts while the user's records are as usable as they were, and
   a token naming such a record is still accepted by refreshAccessToken. *)
C28_HashBeforeRevocation ==
  [][\A p \in Procs :
       ( /\ calls[p].pc \in {"update_hash", "revoke_tokens"}
         /\ calls'[p].pc # calls[p].pc ) =>
         \A i \in RowOfCall(users, calls[p]) :
           /\ users'[i].password_hash # users[i].password_hash
                => refresh_tokens' = refresh_tokens
           /\ refresh_tokens' # refresh_tokens
                => /\ users[i].password_hash = BcryptHash(calls[p].newPassword)
                   /\ users' = users
           /\ (last'.op = "crash" /\ calls[p].pc = "revoke_tokens")
                => /\ LoginCall(users', refresh_tokens', users[i].email,
                                calls[p].newPassword, Undefined, Undefined,
                                now').code = "OK"
                   /\ refresh_tokens' = refresh_tokens
                   /\ \A j \in DOMAIN refresh_tokens :
                        ( /\ refresh_tokens[j].user_id = users[i].id
                          /\ ~refresh_tokens[j].is_revoked )
                        => RefreshCall(users', refresh_tokens',
                                       TopLevelOf(refresh_tokens[j].token),
                                       now').code = "OK"]_vars

\* the process stopped after the hash of a new password was written: the
\* old password no longer verifies and a record of the user is not revoked
C28_Witness ==
  /\ last.op = "crash"
  /\ \E i \in DOMAIN users :
       /\ users[i].password_hash = BcryptHash(NewPassword)
       /\ \E j \in DOMAIN refresh_tokens :
            /\ refresh_tokens[j].user_id = users[i].id
            /\ ~refresh_tokens[j].is_revoked
            /\ refresh_tokens[j].expires_at > now

(* C29: login and refreshAccessToken fail closed on a store failure: a call
   during which a store operation fails answers a failure, returns no pair
   and stores no record, and a login that ends in such a failure leaves the
   failed_login_attempts, locked_until and last_login of the account as
   they were before the call. *)
C29_FailClosed ==
  [][last'.op \in {"login", "refresh"} =>
       /\ last'.failAt # "none" =>
            /\ last'.code # "OK"
            /\ last'.out = {}
            /\ Len(refresh_tokens') = Len(refresh_tokens)
       /\ (last'.op = "login" /\ last'.code = "INTERNAL_SERVER_ERROR") =>
            \A i \in RowsOf(last'.email) :
              /\ users'[i].failed_login_attempts
                   = users[i].failed_login_attempts
              /\ users'[i].locked_until = users[i].locked_until
              /\ users'[i].last_login = users[i].last_login]_vars

(* C26: under every interleaving of concurrent logins for one account, the
   account does not become locked unless at least five password
   verifications have failed on it since a successful login last reset its
   counter to 0. *)
C26_LockNeedsFiveFailures ==
  [][\A i \in DOMAIN users :
       ( /\ users'[i].locked_until # users[i].locked_until
         /\ users'[i].locked_until # {} )
       => streak'[i].n >= 5]_vars

(* C31: access tokens are not individually revocable. authenticate reads
   and writes no table, and an access token the service issued is accepted
   during the 15 minutes after its issue whatever has happened to the
   records and the password of its user since: after a logout and after a
   successful changePassword it is accepted as before. *)
C31_AccessTokenNotRevocable ==
  [][last'.op = "authenticate" =>
       /\ users' = users
       /\ refresh_tokens' = refresh_tokens
       /\ \A i \in DOMAIN refresh_tokens :
            ( /\ last'.token = AccessTokenOf(refresh_tokens[i].token)
              /\ now < refresh_tokens[i].token.body.iat + 15 )
            => last'.code = "OK"]_vars

\* an access token accepted after the changePassword of its user revoked
\* the record issued with it, in a state where a logout has revoked the
\* record of another user
C31_Witness ==
  /\ last.op = "authenticate"
  /\ last.code = "OK"
  /\ \E i \in DOMAIN refresh_tokens : \E j \in DOMAIN refresh_tokens :
       /\ last.token = AccessTokenOf(refresh_tokens[i].token)
       /\ refresh_tokens[i].is_revoked
       /\ \E u \in DOMAIN users :
            /\ users[u].id = refresh_tokens[i].user_id
            /\ users[u].password_hash = BcryptHash(NewPassword)
       /\ refresh_tokens[j].is_revoked
       /\ \E u \in DOMAIN users :
            /\ users[u].id = refresh_tokens[j].user_id
            /\ users[u].password_hash = BcryptHash(GoodPassword)

\* an active account is locked now
SomeAccountLocked ==
  \E i \in DOMAIN users : users[i].is_active /\ LockInForce(users[i], now)

\* a login that found five or more failures stored has succeeded
LoginAfterLockSucceeded ==
  /\ last.op = "login"
  /\ last.code = "OK"
  /\ \E n \in last.attemptsBefore : n >= 5

(* C32: lockout is time-boxed. Whenever an active account is locked, then,
   time going on and no wrong password being tried once the lock has run
   out, a login with the right password eventually succeeds. *)
C32_LockoutIsTimeBoxed == SomeAccountLocked ~> LoginAfterLockSucceeded

\* the right password accepted once the 30 minutes of the lock had passed
C32_Witness ==
  /\ LoginAfterLockSucceeded
  /\ \E i \in RowsOf(last.email) :
       /\ users[i].last_login = {now}
       /\ users[i].locked_until = {}
       /\ now >= 30

(* C33: in every reachable state, under any interleaving of concurrent
   logins, an account whose failed_login_attempts is 5 or more has a
   locked_until that is not NULL. *)
C33_FiveFailuresMeanLock ==
  \A i \in DOMAIN users :
    users[i].failed_login_attempts >= 5 => users[i].locked_until # {}

\* six failures stored and a lock, after the first lock ran out, while
\* another login that has verified its password has not written yet
C33_Witness ==
  /\ \E i \in DOMAIN users :
       /\ users[i].failed_login_attempts >= 6
       /\ users[i].locked_until = {now + 30}
  /\ \E p \in Procs : calls[p].pc = "reset_update"

(* C34: the lockout bounds password guessing under parallel requests: for
   any interleaving of concurrent logins on one account, counted from the
   last reset of its counter to 0, at most 5 password verifications fail
   against the account before it is locked. *)
C34_AtMostFiveGuesses ==
  \A i \in DOMAIN users :
    users[i].locked_until = {} => streak[i].n <= 5

(* C35: changePassword ends every session based on the old credentials
   under concurrency too: once a changePassword of u and the logins and
   refreshAccessToken calls for u that overlapped it have all completed
   (the new hash is stored and no call is in flight), no record of u is
   left with is_revoked = false. *)
C35_NoSessionSurvivesChange ==
  (\A p \in Procs : calls[p].pc = "idle") =>
    \A i \in DOMAIN users :
      users[i].password_hash = BcryptHash(NewPassword) =>
        \A j \in DOMAIN refresh_tokens :
          refresh_tokens[j].user_id = users[i].id
            => refresh_tokens[j].is_revoked

(* C36: revocation is permanent and records are never removed. In every
   step each record stays in the table with its id, owner and expires_at;
   a record that is revoked stays revoked; and a record becomes revoked
   only in a logout with a token that carries its id or in a successful
   changePassword of its owner. *)
C36_RevocationIsPermanent ==
  [][\A i \in DOMAIN refresh_tokens :
       /\ i \in DOMAIN refresh_tokens'
       /\ refresh_tokens'[i].id = refresh_tokens[i].id
       /\ refresh_tokens'[i].user_id = refresh_tokens[i].user_id
       /\ refresh_tokens'[i].expires_at = refresh_tokens[i].expires_at
       /\ refresh_tokens[i].is_revoked => refresh_tokens'[i].is_revoked
       /\ (~refresh_tokens[i].is_revoked /\ refresh_tokens'[i].is_revoked) =>
            \/ /\ last'.op = "logout"
               /\ last'.token # Absent
               /\ SignedForRefresh(last'.token)
               /\ EmbeddedTokenId(last'.token) = refresh_tokens[i].id
            \/ /\ last'.op = "changePassword"
               /\ last'.code = "OK"
               /\ last'.userId = refresh_tokens[i].user_id]_vars

\* a record that a refresh used and a logout then revoked, still there and
\* still revoked after its expiry
C36_Witness ==
  /\ last.op = "tick"
  /\ \E i \in DOMAIN refresh_tokens :
       /\ refresh_tokens[i].is_revoked
       /\ refresh_tokens[i].last_used_at # {}
       /\ refresh_tokens[i].expires_at < now
       /\ \E u \in DOMAIN users :
            /\ users[u].id = refresh_tokens[i].user_id
            /\ users[u].password_hash = BcryptHash(GoodPassword)

(* C37: changePassword neither reads nor writes the login-attempt state.
   Whatever it answers, failed_login_attempts, locked_until and last_login
   of every user are as before; a wrong old password is answered
   INVALID_PASSWORD and counted nowhere; and on a locked account it
   answers as on an unlocked one: with the right old password and a new
   one of 8 characters or more it succeeds and stores the new hash. *)
C37_ChangePasswordIgnoresLoginState ==
  [][last'.op = "changePassword" =>
       \A i \in DOMAIN users :
         /\ users'[i].failed_login_attempts = users[i].failed_login_attempts
         /\ users'[i].locked_until = users[i].locked_until
         /\ users'[i].last_login = users[i].last_login
         /\ users[i].id = last'.userId =>
              IF ~BcryptCompare(last'.password, users[i].password_hash)
              THEN last'.code = "INVALID_PASSWORD"
              ELSE IF Len(last'.newPassword) < 8
              THEN last'.code = "WEAK_PASSWORD"
              ELSE /\ last'.code = "OK"
                   /\ users'[i].password_hash
                        = BcryptHash(last'.newPassword)]_vars

\* a changePassword that succeeded on a locked account with 5 failures
\* stored
C37_Witness ==
  /\ last.op = "changePassword"
  /\ last.code = "OK"
  /\ \E i \in DOMAIN users :
       /\ users[i].id = last.userId
       /\ users[i].failed_login_attempts = 5
       /\ LockInForce(users[i], now)
       /\ users[i].password_hash = BcryptHash(NewPassword)

\* the account states of an owner that the outcomes are compared over
OwnerStates ==
  {[is_active |-> a, failed_login_attempts |-> n, locked_until |-> l] :
     a \in BOOLEAN, n \in {0, 5}, l \in {{}, {now + 30}}}

\* the owner of the token's record is disabled or locked
OwnerDisabledOrLocked(tok) ==
  \E j \in BackingRecords(refresh_tokens, tok) : \E i \in DOMAIN users :
    /\ users[i].id = refresh_tokens[j].user_id
    /\ (~users[i].is_active \/ LockInForce(users[i], now))

(* C38: the outcome of refreshAccessToken does not depend on the owner's
   account state: with is_active, failed_login_attempts and locked_until
   of any user set otherwise, the call gives the same answer, the same
   pair and the same table; so a refresh token the service issued, whose
   record is not revoked and not expired, still obtains a new pair when
   its owner is disabled or locked. *)
C38_RefreshIgnoresAccountState ==
  [][last'.op = "refresh" =>
       /\ \A i \in DOMAIN users : \A state \in OwnerStates :
            LET other == RefreshCall(UpdateUser(users, users[i].id, state),
                                     refresh_tokens, last'.token, now)
            IN  /\ other.code = last'.code
                /\ other.out = last'.out
                /\ other.refresh_tokens = refresh_tokens'
       /\ ( /\ last'.token \in IssuedRefreshTokens
            /\ UsableRecord(refresh_tokens, last'.token, now)
            /\ OwnerDisabledOrLocked(last'.token) )
          => (last'.code = "OK" /\ last'.out # {})]_vars

====
